---- MODULE Spec2Model ----
(***************************************************************************)
(* The pathAssistant Lightning web component                              *)
(* (force-app/main/default/lwc/pathAssistant/pathAssistant.js) together    *)
(* with the Step and Scenario classes of its utils module.                 *)
(*                                                                         *)
(* One action per wired method, event handler and promise callback; the    *)
(* isLoaded getter, which assigns _currentScenario as a side effect, is an *)
(* action too: the view layer reads it.  JavaScript values are strings;    *)
(* undefined and null are the two reserved strings below.  A handler that  *)
(* raises a TypeError keeps the assignments made before the raise and      *)
(* records the raise in last.threw.                                        *)
(***************************************************************************)
EXTENDS Integers, Sequences, FiniteSets

\* ------------------------------------------------------------------ values

Undefined == "<undefined>"
Null == "<null>"

\* JavaScript truthiness of a string-or-undefined-or-null value
Truthy(x) == x \notin {Undefined, Null, ""}

\* an optional object: None is undefined, Some(x) is the object
None == <<>>
Some(x) == <<x>>

\* const OPEN_MODAL_TO_SELECT_CLOSED_STEP
OPEN_MODAL_TO_SELECT_CLOSED_STEP == "pathAssistant_selectAClosedStepValue"

\* @api closedOk / closedKo as configured on the record page
closedOk == "Won"
closedKo == "Lost"

\* @api lastStepLabel as configured on the record page
lastStepLabel == "Closed"

\* ------------------------------------------------------------------ bounds

\* updateRecord promises that may be awaiting their settlement at once
MaxPending == 2

\* picklist payloads delivered by getPicklistValuesByRecordType
Entry(v) == [value |-> v, label |-> v]
PayloadFull == <<Entry("A"), Entry("B"), Entry("Won"), Entry("Lost")>>
PayloadClosedFirst == <<Entry("Won"), Entry("Lost"), Entry("A")>>
Payloads == {PayloadFull, PayloadClosedFirst}

\* picklist payloads that fail _validateSteps: fewer than three values, with
\* and without the closed ones; three values without closedKo, without
\* closedOk, without both
PayloadTwoClosed == <<Entry("Won"), Entry("Lost")>>
PayloadOne == <<Entry("A")>>
PayloadNoKo == <<Entry("A"), Entry("B"), Entry("Won")>>
PayloadNoOk == <<Entry("A"), Entry("B"), Entry("Lost")>>
PayloadNoClosed == <<Entry("A"), Entry("B"), Entry("C")>>
\* a picklist payload that repeats a value
PayloadRepeat == <<Entry("A"), Entry("A"), Entry("Won"), Entry("Lost")>>
LoadPayloads ==
    Payloads \cup {PayloadTwoClosed, PayloadOne, PayloadNoKo, PayloadNoOk,
                   PayloadNoClosed, PayloadRepeat}

\* record.fields[picklistField].value of a delivered record
FieldValues == {"A", "B", "Won", "Lost", Null}

\* data-value of a clicked step element: an open step, a closed step, the
\* placeholder of the last step
ClickValues == {"A", "B", "Won", OPEN_MODAL_TO_SELECT_CLOSED_STEP}

\* event.target.value of the closed step select
ClosedSelectValues == {"Won", "Lost"}

RecordTypeIds == {"012R"}

\* ------------------------------------------------------------------ Step

\* index of new Step(): undefined
NoIndex == -1

\* the index of the placeholder step: a number above every index of a list
Infinity == 1000000

\* new Step(value, label, index)
Step(value, label, index) == [value |-> value, label |-> label, index |-> index]

\* new Step()
EmptyStep == Step(Undefined, Undefined, NoIndex)

\* Step.equals(otherStep) for a string (or undefined, null) argument
equals(step, otherStep) ==
    IF ~Truthy(otherStep) THEN FALSE
    ELSE step.value = otherStep

\* Step.equals(otherStep) for a Step argument
equalsStep(step, otherStep) == step.value = otherStep.value

\* Step.hasValue
hasValue(step) == Truthy(step.value)

\* Step.isBefore(otherStep): this.index < otherStep.index, false when an
\* index is undefined
isBefore(step, otherStep) ==
    IF step.index = NoIndex \/ otherStep.index = NoIndex THEN FALSE
    ELSE step.index < otherStep.index

\* Step.isAfter(otherStep): this.index > otherStep.index, false when an
\* index is undefined
isAfter(step, otherStep) ==
    IF step.index = NoIndex \/ otherStep.index = NoIndex THEN FALSE
    ELSE step.index > otherStep.index

\* Step.isSame(otherStep): this.index === otherStep.index, true for two
\* undefined indexes
isSame(step, otherStep) == step.index = otherStep.index

\* the values, the indexes and the Step objects the methods of Step are
\* called with: new Step() among them
StepValues == {Undefined, "", "A", "Won"}
StepIndexes == {NoIndex, 0, 1}
Steps == {[value |-> v, label |-> v, index |-> i] : v \in StepValues, i \in StepIndexes}

\* the strings Step.equals is called with
OtherValues == {Undefined, Null, "", "A", "Won"}

\* the ScenarioState objects appliesToState is called with
SelectedStages == {Undefined, "", "A", "Won", "pathAssistant_selectAClosedStepValue"}
CurrentStages == {Undefined, "A", "Won", "pathAssistant_selectAClosedStepValue"}
ScenarioStates ==
    {[isClosedStage |-> c, selectedStage |-> sel, currentStage |-> cur,
      openModalStage |-> "pathAssistant_selectAClosedStepValue"] :
        c \in BOOLEAN, sel \in SelectedStages, cur \in CurrentStages}

\* ------------------------------------------------------------- scenarios

ScenarioState(isClosedStage, selectedStage, currentStage, openModalStage) ==
    [isClosedStage |-> isClosedStage, selectedStage |-> selectedStage,
     currentStage |-> currentStage, openModalStage |-> openModalStage]

MarkAsCompleteScenario == "MarkAsCompleteScenario"
MarkAsCurrentScenario == "MarkAsCurrentScenario"
SelectClosedScenario == "SelectClosedScenario"
ChangeClosedScenario == "ChangeClosedScenario"

\* this._scenarios, in the order the constructor pushes them
scenarios ==
    <<MarkAsCompleteScenario, MarkAsCurrentScenario,
      SelectClosedScenario, ChangeClosedScenario>>

\* a mutant of MarkAsCompleteApplies: a selection equal to the current stage
\* is not looked for
MarkAsCompleteApplies_UnsetOnly(state) ==
    IF state.isClosedStage THEN FALSE
    ELSE ~Truthy(state.selectedStage)

\* MarkAsCompleteScenario.appliesToState (its result's truthiness)
MarkAsCompleteApplies(state) ==
    IF state.isClosedStage THEN FALSE
    ELSE ~Truthy(state.selectedStage) \/ state.selectedStage = state.currentStage

\* a mutant of MarkAsCurrentApplies: the placeholder is a selection as any other
MarkAsCurrentApplies_AnySelection(state) ==
    IF state.selectedStage = state.currentStage THEN FALSE
    ELSE Truthy(state.selectedStage)

\* a mutant of MarkAsCurrentApplies: the closed branch is taken for every record
MarkAsCurrentApplies_ClosedOnly(state) ==
    IF state.selectedStage = state.currentStage THEN FALSE
    ELSE state.isClosedStage /\ Truthy(state.selectedStage)

\* a mutant of MarkAsCurrentApplies: the open branch is taken for every record
MarkAsCurrentApplies_OpenOnly(state) ==
    IF state.selectedStage = state.currentStage THEN FALSE
    ELSE /\ ~state.isClosedStage
         /\ Truthy(state.selectedStage)
         /\ state.selectedStage # state.openModalStage

\* MarkAsCurrentScenario.appliesToState (its result's truthiness)
MarkAsCurrentApplies(state) ==
    IF state.selectedStage = state.currentStage THEN FALSE
    ELSE IF state.isClosedStage THEN Truthy(state.selectedStage)
    ELSE Truthy(state.selectedStage) /\ state.selectedStage # state.openModalStage

\* a mutant of SelectClosedApplies: the selection is compared with the current stage
SelectClosedApplies_CurrentStage(state) ==
    ~state.isClosedStage /\ state.selectedStage = state.currentStage

\* SelectClosedScenario.appliesToState
SelectClosedApplies(state) ==
    ~state.isClosedStage /\ state.selectedStage = state.openModalStage

\* a mutant of ChangeClosedApplies: a missing selection is not looked for
ChangeClosedApplies_CurrentOnly(state) ==
    IF ~state.isClosedStage THEN FALSE
    ELSE state.selectedStage = state.currentStage

\* a mutant of ChangeClosedApplies: a selection equal to the current stage is
\* not looked for
ChangeClosedApplies_UnsetOnly(state) ==
    IF ~state.isClosedStage THEN FALSE
    ELSE ~Truthy(state.selectedStage)

\* ChangeClosedScenario.appliesToState
ChangeClosedApplies(state) ==
    IF ~state.isClosedStage THEN FALSE
    ELSE ~Truthy(state.selectedStage) \/ state.selectedStage = state.currentStage

appliesToState(scenario, state) ==
    CASE scenario = MarkAsCompleteScenario -> MarkAsCompleteApplies(state)
      [] scenario = MarkAsCurrentScenario -> MarkAsCurrentApplies(state)
      [] scenario = SelectClosedScenario -> SelectClosedApplies(state)
      [] scenario = ChangeClosedScenario -> ChangeClosedApplies(state)

\* the loop of _setCurrentScenario: the first scenario that applies, and the
\* scenario held before when none applies
firstApplying(state, previous) ==
    LET hits == {i \in 1..Len(scenarios) : appliesToState(scenarios[i], state)}
    IN IF hits = {} THEN previous
       ELSE scenarios[CHOOSE i \in hits : \A j \in hits : i <= j]

\* ------------------------------------------------------------------ state

VARIABLES
    spinner,                  \* show/hide the loading spinner
    openModal,                \* show/hide the modal to select a closed step
    objectInfo,               \* TRUE once the object metadata is set
    record,                   \* record.fields[picklistField].value; Undefined while record is undefined
    errorMsg,                 \* error message, Undefined while none
    possibleSteps,            \* None, or Some(sequence of Step)
    selectedStepValue,        \* step selected by the user
    recordTypeId,             \* _recordTypeId
    currentScenario,          \* _currentScenario
    selectedClosedStepValue,  \* _selectedClosedStepValue
    pending,                  \* number of updateRecord promises not yet settled
    last                      \* the operation performed last: its name ("wire" for a wired
                              \* method), the scenario a button handler found, whether it
                              \* raised, the value it passed to updateRecord

vars ==
    <<spinner, openModal, objectInfo, record, errorMsg, possibleSteps,
      selectedStepValue, recordTypeId, currentScenario, selectedClosedStepValue,
      pending, last>>

\* no updateRecord call
NoRequest == "<no request>"

Done(name, scenario, threw, request) ==
    [op |-> name, scenario |-> scenario, threw |-> threw, request |-> request]

\* an operation that returned without calling updateRecord
Op(name, threw) == Done(name, Undefined, threw, NoRequest)

\* ---------------------------------------------------------------- getters

\* the steps iterated by for (let idx in this.possibleSteps)
stepsOf(ps) == IF ps = None THEN <<>> ELSE ps[1]

\* get currentStep raises when a step exists and this.record is undefined
currentStepThrows == stepsOf(possibleSteps) # <<>> /\ record = Undefined

\* get currentStep, where it does not raise
currentStep ==
    LET s == stepsOf(possibleSteps)
        hits == {i \in 1..Len(s) : equals(s[i], record)}
    IN IF hits = {} THEN EmptyStep
       ELSE s[CHOOSE i \in hits : \A j \in hits : i <= j]

\* get isClosedOk / isClosedKo / isClosed
isClosedOk == equals(currentStep, closedOk)
isClosedKo == equals(currentStep, closedKo)
isClosed == isClosedKo \/ isClosedOk

\* get nextStep raises when possibleSteps is undefined or currentStep raises
nextStepThrows == currentStepThrows \/ possibleSteps = None

\* a mutant of nextStep: the step at currentStep.index
nextStep_Same ==
    LET s == stepsOf(possibleSteps)
        i == currentStep.index
    IN IF i = NoIndex \/ i >= Len(s) THEN None ELSE Some(s[i + 1])

\* get nextStep: this.possibleSteps[this.currentStep.index + 1], None when undefined
nextStep ==
    LET s == stepsOf(possibleSteps)
        i == currentStep.index
    IN IF i = NoIndex \/ i + 1 >= Len(s) THEN None ELSE Some(s[i + 2])

\* a mutant of getStepElementCssClass: a closedKo record is not looked for
getStepElementCssClass_IgnoresClosedKo(step) ==
    LET won == IF equals(step, closedOk) THEN <<"slds-is-won">> ELSE <<>>
        lost == IF equals(step, closedKo) THEN <<"slds-is-lost">> ELSE <<>>
        active == IF equals(step, selectedStepValue) THEN <<"slds-is-active">> ELSE <<>>
        progress ==
            IF equalsStep(step, currentStep)
            THEN <<"slds-is-current">>
                 \o (IF ~Truthy(selectedStepValue) THEN <<"slds-is-active">> ELSE <<>>)
            ELSE IF isBefore(step, currentStep)
            THEN <<"slds-is-complete">>
            ELSE <<"slds-is-incomplete">>
    IN <<"slds-path__item">> \o won \o lost \o active \o progress

\* _getStepElementCssClass(step), where currentStep does not raise: the
\* class names of classText, in the order they are added
getStepElementCssClass(step) ==
    LET won == IF equals(step, closedOk) THEN <<"slds-is-won">> ELSE <<>>
        lost == IF equals(step, closedKo) THEN <<"slds-is-lost">> ELSE <<>>
        active == IF equals(step, selectedStepValue) THEN <<"slds-is-active">> ELSE <<>>
        progress ==
            IF equalsStep(step, currentStep)
            THEN <<"slds-is-current">>
                 \o (IF ~Truthy(selectedStepValue) THEN <<"slds-is-active">> ELSE <<>>)
            ELSE IF isBefore(step, currentStep) /\ ~isClosedKo
            THEN <<"slds-is-complete">>
            ELSE <<"slds-is-incomplete">>
    IN <<"slds-path__item">> \o won \o lost \o active \o progress

\* get steps raises when possibleSteps is undefined or currentStep raises
stepsThrows == possibleSteps = None \/ currentStepThrows

\* a mutant of renderedSteps: the closedKo step is not filtered out
renderedSteps_KeepsClosedKo ==
    LET s == stepsOf(possibleSteps)
        isOpenStep(step) == ~equals(step, closedOk)
        elem(value) ==
            LET hits == {i \in 1..Len(s) : equals(s[i], value)}
            IN s[CHOOSE i \in hits : \A j \in hits : i >= j]
        lastStep ==
            IF isClosedOk THEN elem(closedOk)
            ELSE IF isClosedKo THEN elem(closedKo)
            ELSE Step(OPEN_MODAL_TO_SELECT_CLOSED_STEP, lastStepLabel, Infinity)
    IN Append(SelectSeq(s, isOpenStep), lastStep)

\* get steps, where it does not raise: the steps that are neither closedOk nor
\* closedKo, then the closed step the record is at, or the placeholder
renderedSteps ==
    LET s == stepsOf(possibleSteps)
        isOpenStep(step) == ~equals(step, closedOk) /\ ~equals(step, closedKo)
        elem(value) ==
            LET hits == {i \in 1..Len(s) : equals(s[i], value)}
            IN s[CHOOSE i \in hits : \A j \in hits : i >= j]
        lastStep ==
            IF isClosedOk THEN elem(closedOk)
            ELSE IF isClosedKo THEN elem(closedKo)
            ELSE Step(OPEN_MODAL_TO_SELECT_CLOSED_STEP, lastStepLabel, Infinity)
    IN Append(SelectSeq(s, isOpenStep), lastStep)

\* the classText that get steps sets on each of the steps it returns
renderedClassTexts ==
    [i \in 1..Len(renderedSteps) |-> getStepElementCssClass(renderedSteps[i])]

\* the data-value attributes of the step elements on the page
renderedValues ==
    IF stepsThrows THEN {}
    ELSE {renderedSteps[i].value : i \in 1..Len(renderedSteps)}

\* a mutant of setCurrentScenario: the state is built with the selection held
\* before the click
setCurrentScenario_SelectionBefore(selected) ==
    firstApplying(
        ScenarioState(isClosed, selectedStepValue, currentStep.value,
                      OPEN_MODAL_TO_SELECT_CLOSED_STEP),
        currentScenario)

\* the scenario _setCurrentScenario assigns for a selection, where the getters do not raise
setCurrentScenario(selected) ==
    firstApplying(
        ScenarioState(isClosed, selected, currentStep.value,
                      OPEN_MODAL_TO_SELECT_CLOSED_STEP),
        currentScenario)

\* get isLoaded: record && objectInfo && possibleSteps
isLoadedRes == record # Undefined /\ objectInfo /\ possibleSteps # None

\* get isUpdateButtonDisabled, where currentStep does not raise
isUpdateButtonDisabled == ~hasValue(currentStep) /\ ~Truthy(selectedStepValue)

\* get hasToShowSpinner: this.spinner || !this.isLoaded
hasToShowSpinner == spinner \/ ~isLoadedRes

\* ------------------------------------------------------------------- Init

Init ==
    /\ spinner = FALSE
    /\ openModal = FALSE
    /\ objectInfo = FALSE
    /\ record = Undefined
    /\ errorMsg = Undefined
    /\ possibleSteps = None
    /\ selectedStepValue = Undefined
    /\ recordTypeId = Undefined
    /\ currentScenario = Undefined
    /\ selectedClosedStepValue = Undefined
    /\ pending = 0
    /\ last = Op("constructor", FALSE)

\* ---------------------------------------------------------- wired methods

\* error.body.message of a wire adapter, and of a rejected updateRecord
ProviderError == "provider error"
UpdateError == "update error"
\* the messages the component composes
ImpossibleToLoad == "Impossible to load values for record type"
ClosedOkNotAvailable == "closedOk value is not available for record type"
ClosedKoNotAvailable == "closedKo value is not available for record type"
NotEnoughValues == "Not enough picklist values are available for record type"

\* wiredRecord({ data })
wiredRecordData(value, rtId) ==
    /\ record' = value
    /\ recordTypeId' = rtId
    /\ last' = Op("wire", FALSE)
    /\ UNCHANGED <<spinner, openModal, objectInfo, errorMsg, possibleSteps,
                   selectedStepValue, currentScenario, selectedClosedStepValue,
                   pending>>

\* wiredRecord({ error })
wiredRecordError ==
    /\ errorMsg' = ProviderError
    /\ last' = Op("wire", FALSE)
    /\ UNCHANGED <<spinner, openModal, objectInfo, record, possibleSteps,
                   selectedStepValue, recordTypeId, currentScenario,
                   selectedClosedStepValue, pending>>

\* wiredObject({ data })
wiredObjectData ==
    /\ objectInfo' = TRUE
    /\ last' = Op("wire", FALSE)
    /\ UNCHANGED <<spinner, openModal, record, errorMsg, possibleSteps,
                   selectedStepValue, recordTypeId, currentScenario,
                   selectedClosedStepValue, pending>>

\* wiredObject({ error })
wiredObjectError ==
    /\ errorMsg' = ProviderError
    /\ last' = Op("wire", FALSE)
    /\ UNCHANGED <<spinner, openModal, objectInfo, record, possibleSteps,
                   selectedStepValue, recordTypeId, currentScenario,
                   selectedClosedStepValue, pending>>

\* data.picklistFieldValues[picklistField].values.map((elem, idx) => new Step(...))
buildSteps(payload) ==
    [i \in 1..Len(payload) |-> Step(payload[i].value, payload[i].label, i - 1)]

\* a mutant of validateSteps: the length is looked at only when a closed
\* value is missing
validateSteps_ClosedPairPasses(steps, before) ==
    LET isClosedOkAvailable == \E i \in 1..Len(steps) : equals(steps[i], closedOk)
        isClosedKoAvailable == \E i \in 1..Len(steps) : equals(steps[i], closedKo)
        e1 == IF ~isClosedOkAvailable THEN ClosedOkNotAvailable ELSE before
        e2 == IF ~isClosedKoAvailable THEN ClosedKoNotAvailable ELSE e1
    IN IF Len(steps) < 3 /\ ~(isClosedOkAvailable /\ isClosedKoAvailable)
       THEN NotEnoughValues ELSE e2

\* a mutant of validateSteps: the length is looked at first, the closed
\* values after it
validateSteps_LengthFirst(steps, before) ==
    LET isClosedOkAvailable == \E i \in 1..Len(steps) : equals(steps[i], closedOk)
        isClosedKoAvailable == \E i \in 1..Len(steps) : equals(steps[i], closedKo)
        e0 == IF Len(steps) < 3 THEN NotEnoughValues ELSE before
        e1 == IF ~isClosedOkAvailable THEN ClosedOkNotAvailable ELSE e0
    IN IF ~isClosedKoAvailable THEN ClosedKoNotAvailable ELSE e1

\* a mutant of validateSteps: closedKo is not looked for
validateSteps_OkOnly(steps, before) ==
    LET isClosedOkAvailable == \E i \in 1..Len(steps) : equals(steps[i], closedOk)
        e1 == IF ~isClosedOkAvailable THEN ClosedOkNotAvailable ELSE before
    IN IF Len(steps) < 3 THEN NotEnoughValues ELSE e1

\* _validateSteps: the error message it leaves, given the one held before
validateSteps(steps, before) ==
    LET isClosedOkAvailable == \E i \in 1..Len(steps) : equals(steps[i], closedOk)
        isClosedKoAvailable == \E i \in 1..Len(steps) : equals(steps[i], closedKo)
        e1 == IF ~isClosedOkAvailable THEN ClosedOkNotAvailable ELSE before
        e2 == IF ~isClosedKoAvailable THEN ClosedKoNotAvailable ELSE e1
    IN IF Len(steps) < 3 THEN NotEnoughValues ELSE e2

\* a mutant of wiredPicklistValuesData: the steps are added to the list held
wiredPicklistValuesData_Appends(payload) ==
    /\ Truthy(recordTypeId)
    /\ possibleSteps' = Some(stepsOf(possibleSteps) \o buildSteps(payload))
    /\ errorMsg' = validateSteps(stepsOf(possibleSteps) \o buildSteps(payload), errorMsg)
    /\ last' = Op("wire", FALSE)
    /\ UNCHANGED <<spinner, openModal, objectInfo, record, selectedStepValue,
                   recordTypeId, currentScenario, selectedClosedStepValue,
                   pending>>

\* wiredPicklistValues({ data }) with values for the picklist field
wiredPicklistValuesData(payload) ==
    /\ Truthy(recordTypeId)
    /\ possibleSteps' = Some(buildSteps(payload))
    /\ errorMsg' = validateSteps(buildSteps(payload), errorMsg)
    /\ last' = Op("wire", FALSE)
    /\ UNCHANGED <<spinner, openModal, objectInfo, record, selectedStepValue,
                   recordTypeId, currentScenario, selectedClosedStepValue,
                   pending>>

\* wiredPicklistValues({ data }) without values for the picklist field
wiredPicklistValuesNoField ==
    /\ Truthy(recordTypeId)
    /\ errorMsg' = ImpossibleToLoad
    /\ last' = Op("wire", FALSE)
    /\ UNCHANGED <<spinner, openModal, objectInfo, record, possibleSteps,
                   selectedStepValue, recordTypeId, currentScenario,
                   selectedClosedStepValue, pending>>

\* wiredPicklistValues({ error })
wiredPicklistValuesError ==
    /\ Truthy(recordTypeId)
    /\ errorMsg' = ProviderError
    /\ last' = Op("wire", FALSE)
    /\ UNCHANGED <<spinner, openModal, objectInfo, record, possibleSteps,
                   selectedStepValue, recordTypeId, currentScenario,
                   selectedClosedStepValue, pending>>

\* wiredPicklistValues called while _recordTypeId is not set: invalid call
wiredPicklistValuesInvalid ==
    /\ ~Truthy(recordTypeId)
    /\ last' = Op("wire", FALSE)
    /\ UNCHANGED <<spinner, openModal, objectInfo, record, errorMsg,
                   possibleSteps, selectedStepValue, recordTypeId,
                   currentScenario, selectedClosedStepValue, pending>>

\* ----------------------------------------------------------------- getter

\* get isLoaded, read by the view: initializes the scenario when fully loaded
\* and none is set, and assigns nothing otherwise
isLoaded ==
    \/ /\ isLoadedRes /\ currentScenario = Undefined
       /\ currentScenario' = setCurrentScenario(selectedStepValue)
       /\ last' = Op("isLoaded", FALSE)
       /\ UNCHANGED <<spinner, openModal, objectInfo, record, errorMsg,
                      possibleSteps, selectedStepValue, recordTypeId,
                      selectedClosedStepValue, pending>>
    \/ /\ ~(isLoadedRes /\ currentScenario = Undefined)
       /\ UNCHANGED vars

\* --------------------------------------------------------- event handlers

\* a mutant of closeModal: the picked closed step is dropped with the modal
closeModal_DropsPick ==
    /\ openModal' = FALSE
    /\ selectedClosedStepValue' = Undefined
    /\ last' = Op("closeModal", FALSE)
    /\ UNCHANGED <<spinner, objectInfo, record, errorMsg, possibleSteps,
                   selectedStepValue, recordTypeId, currentScenario, pending>>

\* closeModal
closeModal ==
    /\ openModal' = FALSE
    /\ last' = Op("closeModal", FALSE)
    /\ UNCHANGED <<spinner, objectInfo, record, errorMsg, possibleSteps,
                   selectedStepValue, recordTypeId, currentScenario,
                   selectedClosedStepValue, pending>>

\* a mutant of setClosedStep: the scenario is dropped with the pick
setClosedStep_DropsScenario(value) ==
    /\ selectedClosedStepValue' = value
    /\ currentScenario' = Undefined
    /\ last' = Op("setClosedStep", FALSE)
    /\ UNCHANGED <<spinner, openModal, objectInfo, record, errorMsg,
                   possibleSteps, selectedStepValue, recordTypeId, pending>>

\* setClosedStep(event)
setClosedStep(value) ==
    /\ selectedClosedStepValue' = value
    /\ last' = Op("setClosedStep", FALSE)
    /\ UNCHANGED <<spinner, openModal, objectInfo, record, errorMsg,
                   possibleSteps, selectedStepValue, recordTypeId,
                   currentScenario, pending>>

\* handleStepSelected(event): the selection is assigned before
\* _setCurrentScenario runs, and stays when that raises
handleStepSelected(value) ==
    /\ selectedStepValue' = value
    /\ currentScenario' =
           IF currentStepThrows THEN currentScenario
           ELSE setCurrentScenario(value)
    /\ last' = Op("handleStepSelected", currentStepThrows)
    /\ UNCHANGED <<spinner, openModal, objectInfo, record, errorMsg,
                   possibleSteps, recordTypeId, selectedClosedStepValue,
                   pending>>

\* _resetComponentState
resetComponentState ==
    /\ record' = Undefined
    /\ selectedStepValue' = Undefined
    /\ selectedClosedStepValue' = Undefined
    /\ currentScenario' = Undefined

\* _updateRecord(stepValue), called by handler name: the spinner starts,
\* updateRecord is called with stepValue, the component state is reset
updateRecord(name, stepValue) ==
    /\ pending < MaxPending
    /\ spinner' = TRUE
    /\ pending' = pending + 1
    /\ resetComponentState
    /\ last' = Done(name, currentScenario, FALSE, stepValue)

\* the handler raised before it assigned anything
raised(name) ==
    /\ last' = Done(name, currentScenario, TRUE, NoRequest)
    /\ UNCHANGED <<spinner, openModal, objectInfo, record, errorMsg,
                   possibleSteps, selectedStepValue, recordTypeId,
                   currentScenario, selectedClosedStepValue, pending>>

\* a mutant of nextStepIsClosed: no next step is taken for a closed one
nextStepIsClosed_Never == FALSE

\* a mutant of nextStepIsClosed: closedOk is not looked for
nextStepIsClosed_OnlyKo == equals(nextStep[1], closedKo)

\* the condition of the MarkAsCompleteScenario case: the next step is a closed one
nextStepIsClosed ==
    equals(nextStep[1], closedKo) \/ equals(nextStep[1], closedOk)

\* a mutant of primaryAction: ChangeClosedScenario updates the record
primaryAction_ChangeClosedUpdates ==
    IF currentScenario = Undefined THEN "raise"
    ELSE IF currentScenario = MarkAsCompleteScenario
         THEN IF nextStepThrows \/ nextStep = None THEN "raise"
              ELSE IF nextStepIsClosed THEN "openModal"
              ELSE "updateRecord"
    ELSE IF currentScenario = SelectClosedScenario THEN "openModal"
    ELSE "updateRecord"

\* the switch of handleUpdateButtonClick: what the handler does.  Reading
\* constructor of an undefined scenario raises, and so does the
\* MarkAsCompleteScenario case when get nextStep raises or returns undefined
primaryAction ==
    IF currentScenario = Undefined THEN "raise"
    ELSE IF currentScenario = MarkAsCompleteScenario
         THEN IF nextStepThrows \/ nextStep = None THEN "raise"
              ELSE IF nextStepIsClosed THEN "openModal"
              ELSE "updateRecord"
    ELSE IF currentScenario = MarkAsCurrentScenario THEN "updateRecord"
    ELSE "openModal"

\* a mutant of stepValueToUpdate: MarkAsCurrentScenario passes the current step
stepValueToUpdate_Current ==
    IF currentScenario = MarkAsCompleteScenario THEN nextStep[1].value
    ELSE currentStep.value

\* the argument handleUpdateButtonClick passes to _updateRecord
stepValueToUpdate ==
    IF currentScenario = MarkAsCompleteScenario THEN nextStep[1].value
    ELSE selectedStepValue

\* handleUpdateButtonClick
handleUpdateButtonClick ==
    \/ /\ primaryAction = "raise"
       /\ raised("handleUpdateButtonClick")
    \/ /\ primaryAction = "openModal"
       /\ openModal' = TRUE
       /\ last' = Done("handleUpdateButtonClick", currentScenario, FALSE, NoRequest)
       /\ UNCHANGED <<spinner, objectInfo, record, errorMsg, possibleSteps,
                      selectedStepValue, recordTypeId, currentScenario,
                      selectedClosedStepValue, pending>>
    \/ /\ primaryAction = "updateRecord"
       /\ updateRecord("handleUpdateButtonClick", stepValueToUpdate)
       /\ UNCHANGED <<openModal, objectInfo, errorMsg, possibleSteps,
                      recordTypeId>>

\* a mutant of closedStepPicked: the guard of handleSaveButtonClick is dropped
closedStepPicked_Always == TRUE

\* the guard of handleSaveButtonClick: a closed step was selected
closedStepPicked == Truthy(selectedClosedStepValue)

\* handleSaveButtonClick
handleSaveButtonClick ==
    \/ /\ ~closedStepPicked
       /\ last' = Op("handleSaveButtonClick", FALSE)
       /\ UNCHANGED <<spinner, openModal, objectInfo, record, errorMsg,
                      possibleSteps, selectedStepValue, recordTypeId,
                      currentScenario, selectedClosedStepValue, pending>>
    \/ /\ closedStepPicked
       /\ updateRecord("handleSaveButtonClick", selectedClosedStepValue)
       /\ openModal' = FALSE
       /\ UNCHANGED <<objectInfo, errorMsg, possibleSteps, recordTypeId>>

\* ------------------------------------------------------ promise callbacks

\* a mutant of updateRecordThen: a successful commit clears the message
updateRecordThen_ClearsError ==
    /\ pending > 0
    /\ pending' = pending - 1
    /\ spinner' = FALSE
    /\ errorMsg' = Undefined
    /\ last' = Op("then", FALSE)
    /\ UNCHANGED <<openModal, objectInfo, record, possibleSteps,
                   selectedStepValue, recordTypeId, currentScenario,
                   selectedClosedStepValue>>

\* updateRecord(toUpdate).then(() => ...)
updateRecordThen ==
    /\ pending > 0
    /\ pending' = pending - 1
    /\ spinner' = FALSE
    /\ last' = Op("then", FALSE)
    /\ UNCHANGED <<openModal, objectInfo, record, errorMsg, possibleSteps,
                   selectedStepValue, recordTypeId, currentScenario,
                   selectedClosedStepValue>>

\* a mutant of updateRecordCatch: the spinner is not closed
updateRecordCatch_SpinnerStays ==
    /\ pending > 0
    /\ pending' = pending - 1
    /\ errorMsg' = UpdateError
    /\ last' = Op("catch", FALSE)
    /\ UNCHANGED <<spinner, openModal, objectInfo, record, possibleSteps,
                   selectedStepValue, recordTypeId, currentScenario,
                   selectedClosedStepValue>>

\* a mutant of updateRecordCatch: the message is not recorded
updateRecordCatch_NoMessage ==
    /\ pending > 0
    /\ pending' = pending - 1
    /\ spinner' = FALSE
    /\ last' = Op("catch", FALSE)
    /\ UNCHANGED <<openModal, objectInfo, record, errorMsg, possibleSteps,
                   selectedStepValue, recordTypeId, currentScenario,
                   selectedClosedStepValue>>

\* updateRecord(toUpdate).catch((error) => ...)
updateRecordCatch ==
    /\ pending > 0
    /\ pending' = pending - 1
    /\ errorMsg' = UpdateError
    /\ spinner' = FALSE
    /\ last' = Op("catch", FALSE)
    /\ UNCHANGED <<openModal, objectInfo, record, possibleSteps,
                   selectedStepValue, recordTypeId, currentScenario,
                   selectedClosedStepValue>>

\* ------------------------------------------------------------------- Spec

Next ==
    \/ \E value \in FieldValues, rtId \in RecordTypeIds : wiredRecordData(value, rtId)
    \/ wiredRecordError
    \/ wiredObjectData
    \/ wiredObjectError
    \/ \E payload \in Payloads : wiredPicklistValuesData(payload)
    \/ wiredPicklistValuesNoField
    \/ wiredPicklistValuesError
    \/ wiredPicklistValuesInvalid
    \/ isLoaded
    \/ closeModal
    \/ \E value \in ClosedSelectValues : setClosedStep(value)
    \/ \E value \in ClickValues : handleStepSelected(value)
    \/ handleUpdateButtonClick
    \/ handleSaveButtonClick
    \/ updateRecordThen
    \/ updateRecordCatch

Spec == Init /\ [][Next]_vars

\* every updateRecord promise is settled at last: the runtime calls then or catch
LiveSpec == Spec /\ WF_vars(updateRecordThen \/ updateRecordCatch)

\* the loading of one record page: the three wire adapters deliver, with every
\* picklist payload, the view reads isLoaded and the user clicks steps
NextLoad ==
    \/ \E value \in FieldValues, rtId \in RecordTypeIds : wiredRecordData(value, rtId)
    \/ wiredRecordError
    \/ wiredObjectData
    \/ \E payload \in LoadPayloads : wiredPicklistValuesData(payload)
    \/ wiredPicklistValuesInvalid
    \/ isLoaded
    \/ \E value \in ClickValues : handleStepSelected(value)

LoadSpec == Init /\ [][NextLoad]_vars

\* the component with the clicks on steps restricted to the step elements the
\* steps getter gives the page
NextRendered ==
    \/ \E value \in FieldValues, rtId \in RecordTypeIds : wiredRecordData(value, rtId)
    \/ wiredRecordError
    \/ wiredObjectData
    \/ wiredObjectError
    \/ \E payload \in Payloads : wiredPicklistValuesData(payload)
    \/ wiredPicklistValuesNoField
    \/ wiredPicklistValuesError
    \/ wiredPicklistValuesInvalid
    \/ isLoaded
    \/ closeModal
    \/ \E value \in ClosedSelectValues : setClosedStep(value)
    \/ \E value \in renderedValues : handleStepSelected(value)
    \/ handleUpdateButtonClick
    \/ handleSaveButtonClick
    \/ updateRecordThen
    \/ updateRecordCatch

RenderedSpec == Init /\ [][NextRendered]_vars

\* the events that fail, among the ones that do not: the wire adapters
\* deliver errors and every picklist payload, the save button commits a
\* picked closed step and the request is settled
NextError ==
    \/ \E value \in FieldValues, rtId \in RecordTypeIds : wiredRecordData(value, rtId)
    \/ wiredRecordError
    \/ wiredObjectError
    \/ \E payload \in LoadPayloads : wiredPicklistValuesData(payload)
    \/ wiredPicklistValuesNoField
    \/ wiredPicklistValuesError
    \/ \E value \in ClosedSelectValues : setClosedStep(value)
    \/ handleSaveButtonClick
    \/ updateRecordThen
    \/ updateRecordCatch

ErrorSpec == Init /\ [][NextError]_vars

\* ------------------------------------------------------- the utils module

\* a method of Step or of a scenario returned result for the arguments
Returned(name, args, result) == [op |-> name, args |-> args, result |-> result]

\* step.equals(otherStep) with a string, undefined or null
callEquals(step, otherStep) ==
    /\ last' = Returned("equals", <<step, otherStep>>, equals(step, otherStep))
    /\ UNCHANGED <<spinner, openModal, objectInfo, record, errorMsg,
                   possibleSteps, selectedStepValue, recordTypeId,
                   currentScenario, selectedClosedStepValue, pending>>

\* step.isBefore(otherStep)
callIsBefore(step, otherStep) ==
    /\ last' = Returned("isBefore", <<step, otherStep>>, isBefore(step, otherStep))
    /\ UNCHANGED <<spinner, openModal, objectInfo, record, errorMsg,
                   possibleSteps, selectedStepValue, recordTypeId,
                   currentScenario, selectedClosedStepValue, pending>>

\* step.isAfter(otherStep)
callIsAfter(step, otherStep) ==
    /\ last' = Returned("isAfter", <<step, otherStep>>, isAfter(step, otherStep))
    /\ UNCHANGED <<spinner, openModal, objectInfo, record, errorMsg,
                   possibleSteps, selectedStepValue, recordTypeId,
                   currentScenario, selectedClosedStepValue, pending>>

\* step.isSame(otherStep)
callIsSame(step, otherStep) ==
    /\ last' = Returned("isSame", <<step, otherStep>>, isSame(step, otherStep))
    /\ UNCHANGED <<spinner, openModal, objectInfo, record, errorMsg,
                   possibleSteps, selectedStepValue, recordTypeId,
                   currentScenario, selectedClosedStepValue, pending>>

\* scenario.appliesToState(state)
callAppliesToState(scenario, state) ==
    /\ last' = Returned("appliesToState", <<scenario, state>>,
                        appliesToState(scenario, state))
    /\ UNCHANGED <<spinner, openModal, objectInfo, record, errorMsg,
                   possibleSteps, selectedStepValue, recordTypeId,
                   currentScenario, selectedClosedStepValue, pending>>

\* the methods of the utils module, called with every argument
NextUtils ==
    \/ \E step \in Steps, otherStep \in OtherValues : callEquals(step, otherStep)
    \/ \E step \in Steps, otherStep \in Steps : callIsBefore(step, otherStep)
    \/ \E step \in Steps, otherStep \in Steps : callIsAfter(step, otherStep)
    \/ \E step \in Steps, otherStep \in Steps : callIsSame(step, otherStep)
    \/ \E i \in 1..Len(scenarios), state \in ScenarioStates :
           callAppliesToState(scenarios[i], state)

UtilsSpec == Init /\ [][NextUtils]_vars

\* ----------------------------------------------------------------- claims

\* the value of the step that follows the first step holding the record's
\* stage in the step list; Undefined where there is none
StepAfterCurrent ==
    LET s == stepsOf(possibleSteps)
        at == {i \in 1..Len(s) : Truthy(record) /\ s[i].value = record}
    IN IF at = {} THEN Undefined
       ELSE LET i == CHOOSE k \in at : \A j \in at : k <= j
            IN IF i + 1 > Len(s) THEN Undefined ELSE s[i + 1].value

\* C1: at most one persistence request is outstanding at any time.
C1_AtMostOneOutstanding == pending <= 1

\* C2: under MarkAsCompleteScenario, when the step after the current one is
\* closedOk or closedKo, handleUpdateButtonClick opens the modal, calls no
\* updateRecord and leaves record, selection and scenario as they are.
C2_ClosedNextOpensModal ==
    [][(/\ last'.op = "handleUpdateButtonClick"
        /\ currentScenario = MarkAsCompleteScenario
        /\ StepAfterCurrent \in {closedOk, closedKo})
       => (/\ openModal' = TRUE
           /\ pending' = pending
           /\ last'.request = NoRequest
           /\ UNCHANGED <<record, selectedStepValue, selectedClosedStepValue,
                          currentScenario>>)]_vars

\* C2: the modal was opened by the primary action of a record whose next
\* step is a closed one.
C2_Witness ==
    /\ last.op = "handleUpdateButtonClick"
    /\ last.scenario = MarkAsCompleteScenario
    /\ ~last.threw
    /\ last.request = NoRequest
    /\ StepAfterCurrent \in {closedOk, closedKo}
    /\ currentScenario = MarkAsCompleteScenario
    /\ openModal

\* C3: under MarkAsCompleteScenario, when a step follows the current one and
\* is neither closedOk nor closedKo, handleUpdateButtonClick calls updateRecord
\* exactly once, with that step's value, and leaves the modal as it is.
C3_OpenNextIsCommitted ==
    [][(/\ last'.op = "handleUpdateButtonClick"
        /\ currentScenario = MarkAsCompleteScenario
        /\ StepAfterCurrent \notin {Undefined, closedOk, closedKo})
       => (/\ pending' = pending + 1
           /\ last'.request = StepAfterCurrent
           /\ UNCHANGED openModal)]_vars

\* C3: the primary action committed the next step of an open record.
C3_Witness ==
    /\ last.op = "handleUpdateButtonClick"
    /\ last.scenario = MarkAsCompleteScenario
    /\ last.request = "B"
    /\ pending > 0
    /\ ~openModal

\* C4: under MarkAsCurrentScenario handleUpdateButtonClick calls updateRecord
\* exactly once, with the selectedStepValue held at the call, and leaves the
\* modal as it is.
C4_SelectedIsCommitted ==
    [][(/\ last'.op = "handleUpdateButtonClick"
        /\ currentScenario = MarkAsCurrentScenario)
       => (/\ pending' = pending + 1
           /\ last'.request = selectedStepValue
           /\ UNCHANGED openModal)]_vars

\* C4: the primary action committed a selected step.
C4_Witness ==
    /\ last.op = "handleUpdateButtonClick"
    /\ last.scenario = MarkAsCurrentScenario
    /\ last.request \in ClickValues
    /\ pending > 0
    /\ possibleSteps # None

\* C5: under SelectClosedScenario and ChangeClosedScenario
\* handleUpdateButtonClick sets openModal and nothing else: no updateRecord,
\* and record, both selections and the scenario stay.
C5_ClosedScenariosOnlyOpenModal ==
    [][(/\ last'.op = "handleUpdateButtonClick"
        /\ currentScenario \in {SelectClosedScenario, ChangeClosedScenario})
       => (/\ openModal' = TRUE
           /\ last'.request = NoRequest
           /\ UNCHANGED <<spinner, objectInfo, record, errorMsg, possibleSteps,
                          selectedStepValue, recordTypeId, currentScenario,
                          selectedClosedStepValue, pending>>)]_vars

\* C5: the primary action opened the modal of a closed record.
C5_Witness ==
    /\ last.op = "handleUpdateButtonClick"
    /\ last.scenario = ChangeClosedScenario
    /\ last.request = NoRequest
    /\ currentScenario = ChangeClosedScenario
    /\ isClosed
    /\ openModal

\* C6: handleSaveButtonClick changes nothing and calls no updateRecord while
\* no closed step is picked; with one picked it calls updateRecord exactly
\* once, with selectedClosedStepValue, and closes the modal.
C6_SaveCommitsThePick ==
    [][(last'.op = "handleSaveButtonClick")
       => (/\ ~Truthy(selectedClosedStepValue)
              => (/\ last'.request = NoRequest
                  /\ UNCHANGED <<spinner, openModal, objectInfo, record,
                                 errorMsg, possibleSteps, selectedStepValue,
                                 recordTypeId, currentScenario,
                                 selectedClosedStepValue, pending>>)
           /\ Truthy(selectedClosedStepValue)
              => (/\ pending' = pending + 1
                  /\ last'.request = selectedClosedStepValue
                  /\ openModal' = FALSE))]_vars

\* C6: the save button committed the closed step picked in the open modal.
C6_Witness ==
    /\ last.op = "handleSaveButtonClick"
    /\ last.request \in {closedOk, closedKo}
    /\ pending > 0
    /\ ~openModal
    /\ selectedClosedStepValue = Undefined

\* C7: every commit leaves record, selectedStepValue, selectedClosedStepValue
\* and currentScenario unset, and while its request is outstanding and the
\* record has not been delivered again no scenario is resolved.
C7_LoadingUntilRedelivered ==
    [][/\ pending' = pending + 1
          => (/\ record' = Undefined
              /\ selectedStepValue' = Undefined
              /\ selectedClosedStepValue' = Undefined
              /\ currentScenario' = Undefined)
       /\ (/\ pending > 0
           /\ record = Undefined /\ record' = Undefined
           /\ currentScenario = Undefined)
          => currentScenario' = Undefined]_vars

\* C8: the spinner is set by every commit, closed by then and by catch, and,
\* every promise being settled at last, a set spinner is closed at last.
C8_SpinnerCleared ==
    /\ [][/\ pending' = pending + 1 => spinner' = TRUE
          /\ last'.op \in {"then", "catch"} => spinner' = FALSE]_vars
    /\ (spinner = TRUE) ~> (spinner = FALSE)

\* C8: a rejected updateRecord closed the spinner.
C8_Witness ==
    /\ last.op = "catch"
    /\ spinner = FALSE
    /\ errorMsg = UpdateError

\* C9: a rejected updateRecord records its message and calls no updateRecord;
\* every updateRecord call is made by one click of the update or the save
\* button, one call per click.
C9_FailureRecordedNoRetry ==
    [][/\ last'.op = "catch"
          => (errorMsg' = UpdateError /\ pending' = pending - 1)
       /\ pending' > pending
          => (/\ last'.op \in {"handleUpdateButtonClick", "handleSaveButtonClick"}
              /\ last'.request # NoRequest
              /\ pending' = pending + 1)]_vars

\* C9: a request failed, its message is shown and nothing is outstanding.
C9_Witness ==
    /\ last.op = "catch"
    /\ errorMsg = UpdateError
    /\ pending = 0
    /\ record = Undefined

\* C10: whenever the scenario is resolved for an open record with no
\* selection, or with the current stage selected, it is MarkAsCompleteScenario.
C10_OpenUnselectedIsMarkAsComplete ==
    [][(/\ last'.op \in {"isLoaded", "handleStepSelected"}
        /\ ~last'.threw
        /\ record' # Undefined
        /\ ~isClosed'
        /\ \/ selectedStepValue' = Undefined
           \/ selectedStepValue' = currentStep'.value)
       => currentScenario' = MarkAsCompleteScenario]_vars

\* C10: the user selected the current stage of an open record.
C10_Witness ==
    /\ last.op = "handleStepSelected"
    /\ ~last.threw
    /\ record \in {"A", "B"}
    /\ ~isClosed
    /\ selectedStepValue = currentStep.value
    /\ currentScenario = MarkAsCompleteScenario

\* a step in which _setCurrentScenario ran to its end: isLoaded initialized
\* the scenario, or handleStepSelected returned without raising
Resolved == last.op \in {"isLoaded", "handleStepSelected"} /\ ~last.threw

\* C11: whenever the scenario is resolved for an open record with the
\* placeholder of the closed steps selected, it is SelectClosedScenario.
C11_OpenSentinelIsSelectClosed ==
    [][(/\ Resolved'
        /\ record' # Undefined
        /\ ~isClosed'
        /\ selectedStepValue' = OPEN_MODAL_TO_SELECT_CLOSED_STEP)
       => currentScenario' = SelectClosedScenario]_vars

\* C11: the user clicked the placeholder on a loaded open record.
C11_Witness ==
    /\ last.op = "handleStepSelected"
    /\ ~last.threw
    /\ isLoadedRes
    /\ record \in {"A", "B"}
    /\ selectedStepValue = OPEN_MODAL_TO_SELECT_CLOSED_STEP
    /\ currentScenario = SelectClosedScenario

\* C12: whenever the scenario is resolved for an open record with a selected
\* step that is neither the current stage nor the placeholder, it is
\* MarkAsCurrentScenario.
C12_OpenOtherStepIsMarkAsCurrent ==
    [][(/\ Resolved'
        /\ record' # Undefined
        /\ ~isClosed'
        /\ Truthy(selectedStepValue')
        /\ selectedStepValue' # currentStep'.value
        /\ selectedStepValue' # OPEN_MODAL_TO_SELECT_CLOSED_STEP)
       => currentScenario' = MarkAsCurrentScenario]_vars

\* C12: the user clicked step B on a loaded record whose stage is A.
C12_Witness ==
    /\ last.op = "handleStepSelected"
    /\ ~last.threw
    /\ isLoadedRes
    /\ record = "A"
    /\ selectedStepValue = "B"
    /\ currentScenario = MarkAsCurrentScenario

\* C13: whenever the scenario is resolved for a closed record with no
\* selection, or with the current stage selected, it is ChangeClosedScenario.
C13_ClosedUnselectedIsChangeClosed ==
    [][(/\ Resolved'
        /\ record' # Undefined
        /\ isClosed'
        /\ \/ selectedStepValue' = Undefined
           \/ selectedStepValue' = currentStep'.value)
       => currentScenario' = ChangeClosedScenario]_vars

\* C13: the user clicked the closed step a loaded closed record is at.
C13_Witness ==
    /\ last.op = "handleStepSelected"
    /\ ~last.threw
    /\ isLoadedRes
    /\ record = closedOk
    /\ isClosedOk
    /\ selectedStepValue = closedOk
    /\ currentScenario = ChangeClosedScenario

\* C14: whenever the scenario is resolved for a closed record with a selected
\* step that is not the current stage, it is MarkAsCurrentScenario.
C14_ClosedOtherStepIsMarkAsCurrent ==
    [][(/\ Resolved'
        /\ record' # Undefined
        /\ isClosed'
        /\ Truthy(selectedStepValue')
        /\ selectedStepValue' # currentStep'.value)
       => currentScenario' = MarkAsCurrentScenario]_vars

\* C14: the user clicked an open step on a loaded closed record.
C14_Witness ==
    /\ last.op = "handleStepSelected"
    /\ ~last.threw
    /\ isLoadedRes
    /\ isClosed
    /\ selectedStepValue \in {"A", "B"}
    /\ currentScenario = MarkAsCurrentScenario

\* a step list holds a step of the value
HasStep(steps, value) == \E i \in 1..Len(steps) : steps[i].value = value

\* C15: when a step list of fewer than three entries is loaded, the message
\* recorded is the not enough picklist values one, also when closedOk and
\* closedKo are both among the entries.
C15_ShortListIsNotEnough ==
    [][(/\ possibleSteps' # possibleSteps
        /\ Len(stepsOf(possibleSteps')) < 3)
       => errorMsg' = NotEnoughValues]_vars

\* C15: a list of the two closed values alone was loaded and is reported as
\* not enough.
C15_Witness ==
    /\ last.op = "wire"
    /\ possibleSteps = Some(buildSteps(PayloadTwoClosed))
    /\ HasStep(stepsOf(possibleSteps), closedOk)
    /\ HasStep(stepsOf(possibleSteps), closedKo)
    /\ errorMsg = NotEnoughValues

\* C16: when a step list of at least three entries is loaded, a missing
\* closedOk or closedKo leaves the message of a value that is missing, and a
\* list holding both leaves the error as it was.
C16_MissingClosedValueIsNamed ==
    [][(/\ possibleSteps' # possibleSteps
        /\ Len(stepsOf(possibleSteps')) >= 3)
       => LET steps == stepsOf(possibleSteps')
              okMissing == ~HasStep(steps, closedOk)
              koMissing == ~HasStep(steps, closedKo)
          IN /\ (okMissing \/ koMissing)
                => /\ errorMsg' \in {ClosedOkNotAvailable, ClosedKoNotAvailable}
                   /\ errorMsg' = ClosedOkNotAvailable => okMissing
                   /\ errorMsg' = ClosedKoNotAvailable => koMissing
             /\ (~okMissing /\ ~koMissing) => errorMsg' = errorMsg]_vars

\* C16: a list of three values without closedKo was loaded and the message
\* names closedKo.
C16_Witness ==
    /\ last.op = "wire"
    /\ possibleSteps = Some(buildSteps(PayloadNoKo))
    /\ ~HasStep(stepsOf(possibleSteps), closedKo)
    /\ errorMsg = ClosedKoNotAvailable

\* C17: while the step list held fails the validation, the view reading
\* isLoaded resolves no scenario: an unset scenario stays unset.
C17_NoScenarioOnInvalidSteps ==
    [][(/\ last'.op = "isLoaded"
        /\ possibleSteps # None
        /\ validateSteps(stepsOf(possibleSteps), Undefined) # Undefined
        /\ currentScenario = Undefined)
       => currentScenario' = Undefined]_vars

\* C18: handleStepSelected called while record, object metadata and steps are
\* not all present leaves selectedStepValue and the scenario as they are and
\* does not raise.
C18_SelectWhileLoadingIsNoOp ==
    [][(last'.op = "handleStepSelected" /\ ~isLoadedRes)
       => (/\ UNCHANGED <<selectedStepValue, currentScenario>>
           /\ ~last'.threw)]_vars

\* C19: every commit clears the step list, the record and the object
\* metadata.
C19_CommitClearsLoadedData ==
    [][pending' = pending + 1
       => (/\ record' = Undefined
           /\ possibleSteps' = None
           /\ objectInfo' = FALSE)]_vars

\* C20: with the clicks restricted to the rendered steps, the placeholder
\* value is never the value passed to updateRecord.
C20_SentinelNeverCommitted == last.request # OPEN_MODAL_TO_SELECT_CLOSED_STEP

\* C20: the placeholder was selected and the primary action opened the modal
\* without a request.
C20_Witness ==
    /\ last.op = "handleUpdateButtonClick"
    /\ last.scenario = SelectClosedScenario
    /\ last.request = NoRequest
    /\ selectedStepValue = OPEN_MODAL_TO_SELECT_CLOSED_STEP
    /\ OPEN_MODAL_TO_SELECT_CLOSED_STEP \in renderedValues
    /\ openModal

\* C21: for every Step and every string, the empty string included,
\* step.equals(string) is true exactly when step.value is that string.
C21_EqualsIsValueIdentity ==
    (last.op = "equals" /\ last.args[2] \notin {Undefined, Null})
    => (last.result <=> last.args[1].value = last.args[2])

\* the scenarios other than the given one that apply to a state
OthersApplying(scenario, state) ==
    {scenarios[i] : i \in {j \in 1..Len(scenarios) :
        scenarios[j] # scenario /\ appliesToState(scenarios[j], state)}}

\* C22 as stated: for every ScenarioState at most one of the four predicates
\* holds.
C22_AtMostOneApplies ==
    (last.op = "appliesToState" /\ last.result)
    => OthersApplying(last.args[1], last.args[2]) = {}

\* C22: for every ScenarioState at most one of the four predicates holds,
\* but for the open state whose selected and current stage are both the
\* placeholder, where MarkAsCompleteScenario and SelectClosedScenario hold.
C22_AtMostOneAppliesButPlaceholderStage ==
    (last.op = "appliesToState" /\ last.result)
    => LET scenario == last.args[1]
           state == last.args[2]
           others == OthersApplying(scenario, state)
       IN IF /\ ~state.isClosedStage
             /\ state.selectedStage = state.openModalStage
             /\ state.currentStage = state.openModalStage
          THEN {scenario} \cup others = {MarkAsCompleteScenario, SelectClosedScenario}
          ELSE others = {}

\* C22: SelectClosedScenario applied to the open state whose stage is the
\* placeholder, selected too.
C22_Witness ==
    /\ last.op = "appliesToState"
    /\ last.args[1] = SelectClosedScenario
    /\ last.result
    /\ ~last.args[2].isClosedStage
    /\ last.args[2].currentStage = OPEN_MODAL_TO_SELECT_CLOSED_STEP
    /\ MarkAsCompleteApplies(last.args[2])

\* C25: isBefore, isAfter and isSame return false whenever an operand is a
\* Step without value and index.
C25_EmptyStepComparesFalse ==
    (/\ last.op \in {"isBefore", "isAfter", "isSame"}
     /\ \/ last.args[1] = EmptyStep
        \/ last.args[2] = EmptyStep)
    => ~last.result

\* the scenario the priority table gives a state: the first of
\* MarkAsComplete, MarkAsCurrent, SelectClosed, ChangeClosed whose predicate
\* holds, Undefined when none does
TableScenario(closed, selected, current) ==
    LET set == Truthy(selected)
    IN IF ~closed /\ (~set \/ selected = current)
       THEN MarkAsCompleteScenario
       ELSE IF /\ selected # current
               /\ \/ ~closed /\ set /\ selected # OPEN_MODAL_TO_SELECT_CLOSED_STEP
                  \/ closed /\ set
       THEN MarkAsCurrentScenario
       ELSE IF ~closed /\ selected = OPEN_MODAL_TO_SELECT_CLOSED_STEP
       THEN SelectClosedScenario
       ELSE IF closed /\ (~set \/ selected = current)
       THEN ChangeClosedScenario
       ELSE Undefined

\* C23: every handleStepSelected performed with record, object metadata and
\* steps present returns with selectedStepValue the clicked value and the
\* scenario the first of the priority order whose predicate holds for the
\* new state.
C23_SelectionResolvesFirstMatch ==
    [][\A value \in ClickValues :
          (isLoadedRes /\ handleStepSelected(value))
          => (/\ ~last'.threw
              /\ selectedStepValue' = value
              /\ currentScenario' =
                     TableScenario(isClosed', selectedStepValue',
                                   currentStep'.value)
              /\ currentScenario' # Undefined)]_vars

\* C23: the user clicked step A on a loaded record whose stage is B.
C23_Witness ==
    /\ last.op = "handleStepSelected"
    /\ ~last.threw
    /\ isLoadedRes
    /\ record = "B"
    /\ selectedStepValue = "A"
    /\ currentScenario = MarkAsCurrentScenario
    /\ errorMsg = Undefined

\* C24: setClosedStep changes selectedClosedStepValue only: scenario,
\* selection, record, modal and spinner stay, and no updateRecord is called.
C24_SetClosedStepOnlyPicks ==
    [][(last'.op = "setClosedStep")
       => (/\ last'.request = NoRequest
           /\ selectedClosedStepValue' \in ClosedSelectValues
           /\ UNCHANGED <<spinner, openModal, objectInfo, record, errorMsg,
                          possibleSteps, selectedStepValue, recordTypeId,
                          currentScenario, pending>>)]_vars

\* C24: a closed step was picked in the open modal of a loaded record.
C24_Witness ==
    /\ last.op = "setClosedStep"
    /\ selectedClosedStepValue = closedKo
    /\ openModal
    /\ isLoadedRes
    /\ currentScenario = SelectClosedScenario
    /\ pending = 0

\* C26: no two Steps of the step list have the same value.
C26_StepValuesAreUnique ==
    LET s == stepsOf(possibleSteps)
    IN \A i, j \in 1..Len(s) : i # j => s[i].value # s[j].value

\* C27: every delivery of a picklist payload, the first and a repeated one,
\* leaves the sequence of the payload's (value, label) in the payload's
\* order, the Step at position i holding index i.
C27_StepListFollowsPayload ==
    [][\A payload \in LoadPayloads :
          wiredPicklistValuesData(payload)
          => LET s == stepsOf(possibleSteps')
             IN /\ possibleSteps' # None
                /\ Len(s) = Len(payload)
                /\ \A i \in 1..Len(s) :
                      /\ s[i].value = payload[i].value
                      /\ s[i].label = payload[i].label
                      /\ s[i].index = i - 1]_vars

\* C27: the list of the payload [Won, Lost, A] is loaded, closedOk at
\* position 0 and A at position 2.
C27_Witness ==
    /\ last.op = "wire"
    /\ possibleSteps # None
    /\ Len(stepsOf(possibleSteps)) = Len(PayloadClosedFirst)
    /\ stepsOf(possibleSteps)[1] = [value |-> "Won", label |-> "Won", index |-> 0]
    /\ stepsOf(possibleSteps)[3] = [value |-> "A", label |-> "A", index |-> 2]

\* the message one validation pass leaves for a picklist payload: the one of
\* the last check that fails, closedOk, closedKo, then the length; the
\* message held before when no check fails
LastFailingCheck(payload, before) ==
    LET has(value) == \E i \in 1..Len(payload) : payload[i].value = value
    IN IF Len(payload) < 3 THEN NotEnoughValues
       ELSE IF ~has(closedKo) THEN ClosedKoNotAvailable
       ELSE IF ~has(closedOk) THEN ClosedOkNotAvailable
       ELSE before

\* C28: every failing event leaves its own message in errorMsg whatever
\* message was held: a wire adapter's error, a picklist without the field,
\* the last failing check of a validation pass, a rejected updateRecord; and
\* errorMsg changes in no other step.
C28_LastErrorWins ==
    [][/\ (wiredRecordError \/ wiredObjectError \/ wiredPicklistValuesError)
          => errorMsg' = ProviderError
       /\ wiredPicklistValuesNoField => errorMsg' = ImpossibleToLoad
       /\ \A payload \in LoadPayloads :
             wiredPicklistValuesData(payload)
             => errorMsg' = LastFailingCheck(payload, errorMsg)
       /\ updateRecordCatch => errorMsg' = UpdateError
       /\ errorMsg' # errorMsg => last'.op \in {"wire", "catch"}]_vars

\* C28: the list [A], short and without closed values, was reported as not
\* enough values, and a rejected updateRecord has since put its message in
\* the place of that one.
C28_Witness ==
    /\ last.op = "catch"
    /\ possibleSteps = Some(buildSteps(PayloadOne))
    /\ errorMsg = UpdateError
    /\ pending = 0

\* the steps of the list that are neither closedOk nor closedKo, in the
\* order of the list
OpenSteps ==
    LET isOpen(step) == step.value \notin {closedOk, closedKo}
    IN SelectSeq(stepsOf(possibleSteps), isOpen)

\* the record is at a closed step: its stage is the value of a step of the
\* list, and that value is closedOk or closedKo
RecordIsClosed ==
    /\ record \in {closedOk, closedKo}
    /\ \E i \in 1..Len(stepsOf(possibleSteps)) :
          stepsOf(possibleSteps)[i].value = record

\* C29: wherever the steps getter returns, it returns the steps that are
\* neither closedOk nor closedKo in their order, then one step: the closedOk
\* Step of the list when the record is closedOk, the closedKo Step when it is
\* closedKo, a Step of the placeholder value otherwise.
C29_RenderedStepsAreOpenStepsAndOne ==
    ~stepsThrows
    => LET r == renderedSteps
           s == stepsOf(possibleSteps)
           trailing == r[Len(r)]
       IN /\ Len(r) = Len(OpenSteps) + 1
          /\ SubSeq(r, 1, Len(r) - 1) = OpenSteps
          /\ IF RecordIsClosed
             THEN /\ trailing.value = record
                  /\ \E i \in 1..Len(s) : s[i] = trailing
             ELSE /\ trailing.value = OPEN_MODAL_TO_SELECT_CLOSED_STEP
                  /\ \A i \in 1..Len(s) : s[i] # trailing

\* C29: the record is closedOk and the steps A, B and the closedOk step are
\* rendered.
C29_Witness ==
    /\ isLoadedRes
    /\ record = closedOk
    /\ Len(renderedSteps) = 3
    /\ renderedSteps[1].value = "A"
    /\ renderedSteps[2].value = "B"
    /\ renderedSteps[3] = [value |-> closedOk, label |-> closedOk, index |-> 2]

\* a class name is among the ones of a classText
Tagged(classText, name) == \E i \in 1..Len(classText) : classText[i] = name

\* the index of the first step of the list holding the record's stage, NoIndex
\* when there is none
CurrentIndex ==
    LET s == stepsOf(possibleSteps)
        at == {i \in 1..Len(s) : Truthy(record) /\ s[i].value = record}
    IN IF at = {} THEN NoIndex
       ELSE (CHOOSE k \in at : \A j \in at : k <= j) - 1

\* C30: a rendered step that is not the current one is tagged complete
\* exactly when its index is lower than the current step's and the record is
\* not closedKo, and tagged incomplete exactly when it is not tagged complete.
C30_CompleteIsBeforeCurrentAndNotLost ==
    ~stepsThrows
    => \A i \in 1..Len(renderedSteps) :
          LET step == renderedSteps[i]
              classText == renderedClassTexts[i]
              lower == CurrentIndex # NoIndex /\ step.index < CurrentIndex
          IN step.value # currentStep.value
             => /\ Tagged(classText, "slds-is-complete")
                   <=> (lower /\ record # closedKo)
                /\ Tagged(classText, "slds-is-incomplete")
                   <=> ~(lower /\ record # closedKo)
                /\ ~Tagged(classText, "slds-is-current")

\* C30: on a closedKo record the steps A and B, before the closedKo step,
\* are rendered as incomplete.
C30_Witness ==
    /\ isLoadedRes
    /\ record = closedKo
    /\ isClosedKo
    /\ renderedSteps[1].index < currentStep.index
    /\ Tagged(renderedClassTexts[1], "slds-is-incomplete")
    /\ Tagged(renderedClassTexts[2], "slds-is-incomplete")
    /\ Tagged(renderedClassTexts[3], "slds-is-current")

\* C31: for every ScenarioState at least one of the four predicates holds,
\* so the loop of _setCurrentScenario assigns a scenario whatever was held.
C31_SomeScenarioApplies ==
    (last.op = "appliesToState")
    => LET scenario == last.args[1]
           state == last.args[2]
       IN /\ last.result \/ OthersApplying(scenario, state) # {}
          /\ firstApplying(state, Undefined) # Undefined
          /\ \A i \in 1..Len(scenarios) :
                firstApplying(state, scenarios[i]) = firstApplying(state, Undefined)

\* C31: MarkAsCurrentScenario does not apply to the closed state with an
\* empty selection, and ChangeClosedScenario does.
C31_Witness ==
    /\ last.op = "appliesToState"
    /\ last.args[1] = MarkAsCurrentScenario
    /\ ~last.result
    /\ last.args[2].isClosedStage
    /\ last.args[2].selectedStage = ""
    /\ OthersApplying(MarkAsCurrentScenario, last.args[2]) = {ChangeClosedScenario}

\* the scenario held is the one the priority table gives the present state
ScenarioIsPresent ==
    currentScenario = TableScenario(isClosed, selectedStepValue, currentStep.value)

\* C32: with record, object metadata and steps present and the scenario the
\* one of the present state, the delivery of a record of another stage leaves
\* the scenario the one of the new state.
C32_ScenarioFollowsRecord ==
    [][(/\ isLoadedRes /\ isLoadedRes'
        /\ ScenarioIsPresent
        /\ record' # record)
       => ScenarioIsPresent']_vars

\* C33: with record, object metadata and steps present, the update button
\* enabled and MarkAsCompleteScenario the scenario of the present state,
\* handleUpdateButtonClick does not raise: it opens the modal, or calls
\* updateRecord with the value of a step of the list.
C33_MarkAsCompleteHasNextStep ==
    [][(/\ last'.op = "handleUpdateButtonClick"
        /\ isLoadedRes
        /\ ~isUpdateButtonDisabled
        /\ currentScenario = MarkAsCompleteScenario
        /\ ScenarioIsPresent)
       => (/\ ~last'.threw
           /\ \/ openModal' /\ last'.request = NoRequest
              \/ HasStep(stepsOf(possibleSteps), last'.request))]_vars

\* C34: with the clicks restricted to the rendered steps and the picks to
\* the closed values, handleUpdateButtonClick never passes closedOk or closedKo
\* to updateRecord, and handleSaveButtonClick passes nothing else.
C34_ClosedValuesOnlyThroughSave ==
    /\ last.op = "handleUpdateButtonClick"
       => last.request \notin {closedOk, closedKo}
    /\ (last.op = "handleSaveButtonClick" /\ last.request # NoRequest)
       => last.request \in {closedOk, closedKo}

\* C34: the save button committed closedKo on a record whose steps are
\* loaded, two requests outstanding at most.
C34_Witness ==
    /\ last.op = "handleSaveButtonClick"
    /\ last.request = closedKo
    /\ possibleSteps # None
    /\ objectInfo
    /\ record = Undefined
    /\ spinner

\* C35: once errorMsg is set no step unsets it, and a step that changes
\* errorMsg is a wire adapter delivering an error or too few values, or the
\* catch callback of a commit.
C35_ErrorIsNeverCleared ==
    [][/\ errorMsg # Undefined => errorMsg' # Undefined
       /\ errorMsg' # errorMsg
          => /\ last'.op \in {"wire", "catch"}
             /\ errorMsg' \in {ProviderError, UpdateError, ImpossibleToLoad,
                              ClosedOkNotAvailable, ClosedKoNotAvailable,
                              NotEnoughValues}]_vars

\* C35: a commit succeeded on a component that holds an error message and a
\* validated list of steps.
C35_Witness ==
    /\ last.op = "then"
    /\ errorMsg # Undefined
    /\ possibleSteps # None
    /\ objectInfo

\* C36: closeModal assigns openModal and nothing else; a picked closed step
\* is unset only by a step that calls updateRecord; and the save button
\* commits the closed step held, whenever it was picked.
C36_CloseModalKeepsPick ==
    [][/\ last'.op = "closeModal"
          => /\ ~openModal'
             /\ UNCHANGED <<spinner, objectInfo, record, errorMsg, possibleSteps,
                            selectedStepValue, recordTypeId, currentScenario,
                            selectedClosedStepValue, pending>>
       /\ (selectedClosedStepValue # Undefined /\ selectedClosedStepValue' = Undefined)
          => /\ last'.request # NoRequest
             /\ pending' = pending + 1
       /\ (last'.op = "handleSaveButtonClick" /\ selectedClosedStepValue # Undefined)
          => last'.request = selectedClosedStepValue]_vars

\* C36: the modal was closed on a loaded record while closedOk is picked, and
\* the pick is still held.
C36_Witness ==
    /\ last.op = "closeModal"
    /\ ~openModal
    /\ selectedClosedStepValue = closedOk
    /\ isLoadedRes
    /\ pending < MaxPending

\* C37: the catch callback of a commit records the message, closes the
\* spinner and assigns nothing else; after it, while the record is not
\* delivered again, the record stays unset, hasToShowSpinner stays true and
\* no scenario is resolved; and only the record wire sets the record.
C37_FailedCommitStaysLoading ==
    [][/\ last'.op = "catch"
          => /\ errorMsg' = UpdateError
             /\ ~spinner'
             /\ UNCHANGED <<record, currentScenario, selectedStepValue,
                            selectedClosedStepValue, possibleSteps, objectInfo>>
       /\ (record = Undefined /\ record' # Undefined) => last'.op = "wire"
       /\ (errorMsg = UpdateError /\ record = Undefined /\ record' = Undefined)
          => /\ hasToShowSpinner'
             /\ currentScenario = Undefined => currentScenario' = Undefined]_vars

\* C38: while the request of a commit is outstanding and no scenario has been
\* resolved since, isLoaded resolves the scenario with no selection held:
\* MarkAsCompleteScenario on an open stage and ChangeClosedScenario on a
\* closed one.
C38_FreshScenarioAfterCommit ==
    [][(/\ last'.op = "isLoaded"
        /\ pending > 0
        /\ currentScenario = Undefined
        /\ currentScenario' # Undefined)
       => (/\ selectedStepValue' = Undefined
           /\ currentScenario' = IF isClosed' THEN ChangeClosedScenario
                                 ELSE MarkAsCompleteScenario)]_vars

====
